---------------------------- MODULE Spec2Model ----------------------------
(***************************************************************************)
(* Circular Construction Simulation Model (src/app.py).                    *)
(*                                                                         *)
(* The program is a Streamlit script.  Its state is the value of every     *)
(* input widget; each user interaction (a widget edited, a button          *)
(* clicked) re-runs the script top to bottom with the widget values of     *)
(* the session.  run_simulation takes three fractions as arguments and     *)
(* reads the two house counts from the module-level widget values.         *)
(*                                                                         *)
(* Numbers.  A slider runs over 0.0 .. 1.0 in steps of 0.05, so a fraction *)
(* is modelled by its slider position p, standing for p / SliderSteps.     *)
(* Tonnages and emissions are rationals with denominator 4 on that grid    *)
(* (45 * p / 20 = 9p / 4); the model keeps them exactly, as integers in    *)
(* units of 1/Scale tonne and 1/Scale kg.  Floating-point rounding of the  *)
(* Python floats is not modelled.                                          *)
(***************************************************************************)
EXTENDS Integers, Sequences, FiniteSets, TLC

VARIABLES
    concrete_recycle_percent,    \* slider, app.py:12
    soil_reuse_percent,          \* slider, app.py:13
    max_rca_permitted,           \* slider, app.py:14
    houses_built_per_year,       \* number input, app.py:16
    houses_demolished_per_year,  \* number input, app.py:17
    a_concrete, a_soil, a_rca,   \* scenario A sliders, app.py:101-103
    b_concrete, b_soil, b_rca,   \* scenario B sliders, app.py:107-109
    result,                      \* app.py:74, bound only in a run with "Run Simulation" clicked
    df_compare,                  \* app.py:115, bound only in a run with "Compare Scenarios" clicked
    last_calls,                  \* observation log: the invocations of run_simulation made by
                                 \* the latest script run that made any
    prev_calls                   \* observation log: those of the run that made any before it

main_sliders == <<concrete_recycle_percent, soil_reuse_percent, max_rca_permitted>>
number_inputs == <<houses_built_per_year, houses_demolished_per_year>>
scenario_sliders == <<a_concrete, a_soil, a_rca, b_concrete, b_soil, b_rca>>
outputs == <<result, df_compare>>
log == <<last_calls, prev_calls>>
vars == <<main_sliders, number_inputs, scenario_sliders, outputs, log>>

---------------------------------------------------------------------------
(* Bounds of the model *)

\* the user moves a main slider to every SliderStride-th position
SliderStride == 5
\* the user moves a scenario slider to every ScenarioStride-th position
ScenarioStride == 10
\* a direct caller passes every EngineStride-th position of -1.0 .. 2.0
EngineStride == 12
\* house counts typed by the user: -NegHouses .. MaxHouses, besides the defaults
MaxHouses == 2
NegHouses == 1

---------------------------------------------------------------------------
(* Constants of the program *)

SliderSteps == 20                \* (1.0 - 0.0) / 0.05 positions above the minimum
Scale == SliderSteps \div 5      \* model units per tonne (and per kg)

default_concrete_recycle_percent == 6    \* 0.3
default_soil_reuse_percent == 4          \* 0.2
default_max_rca_permitted == 6           \* 0.3
default_houses_built_per_year == 25000
default_houses_demolished_per_year == 1500
default_a_concrete == 6                  \* 0.3
default_a_soil == 4                      \* 0.2
default_a_rca == 6                       \* 0.3
default_b_concrete == 12                 \* 0.6
default_b_soil == 6                      \* 0.3
default_b_rca == 10                      \* 0.5

concrete_per_house == 50
concrete_per_deconstructed_house == 45
soil_per_deconstructed_house == 15
cement_content_per_tonne_tenths == 3     \* 0.3
emission_cement == 698
emission_aggregate == 9
emission_transport_virgin == 100
emission_transport_recycled == 50
emission_waste_processing == 30
emission_soil == 10

---------------------------------------------------------------------------
(* Value sets *)

SliderPositions == 0..SliderSteps
MainSliderMoves == {p \in SliderPositions : p % SliderStride = 0}
ScenarioSliderMoves == {p \in SliderPositions : p % ScenarioStride = 0}
EngineFractions == {p \in (-SliderSteps)..(2 * SliderSteps) : p % EngineStride = 0}
HouseCounts == (-NegHouses)..MaxHouses

NoResult == <<>>
NoCalls == <<>>

MetricNames ==
    <<"Total CO2", "Recycled Concrete", "Virgin Aggregate",
      "Reused Soil", "Virgin Soil", "Sand & Gravel Saved">>

BreakdownNames ==
    <<"Cement Production", "Virgin Aggregate", "Transport (Virgin)",
      "Transport (Recycled)", "Waste Processing", "Virgin Soil">>

Range(s) == {s[i] : i \in DOMAIN s}

---------------------------------------------------------------------------
(* Arithmetic helpers *)

\* x whole tonnes (or kg) in model units
Units(x) == x * Scale

\* x (whole tonnes) times the fraction at slider position p, in model units
Times(x, p) == (Units(x) * p) \div SliderSteps

\* Python's min(a, b): b only when b < a
min(a, b) == IF b < a THEN b ELSE a

---------------------------------------------------------------------------
(* The simulation function, app.py:32-70.  Each local of the function is  *)
(* an operator of the arguments it depends on; the house counts are read   *)
(* from the widgets, as the function reads them from the module globals.   *)

concrete_demand == houses_built_per_year * concrete_per_house
concrete_deconstruction == houses_demolished_per_year * concrete_per_deconstructed_house
soil_from_demo == houses_demolished_per_year * soil_per_deconstructed_house

\* variant: the fraction is clamped to [0,1] before use
recycled_clamped(concrete_recycle) ==
    Times(concrete_deconstruction,
          IF concrete_recycle < 0 THEN 0
          ELSE IF concrete_recycle > SliderSteps THEN SliderSteps ELSE concrete_recycle)
recycled(concrete_recycle) == Times(concrete_deconstruction, concrete_recycle)
\* variant: the reused soil is taken from the concrete tonnage
reused_soil_of_concrete(soil_reuse) == Times(concrete_deconstruction, soil_reuse)
reused_soil(soil_reuse) == Times(soil_from_demo, soil_reuse)

\* variant: the ceiling is applied as a share of the recycled supply
used_rca_share_of_recycled(concrete_recycle, rca_limit) ==
    (recycled(concrete_recycle) * rca_limit) \div SliderSteps
\* variant: the larger of supply and ceiling
used_rca_max(concrete_recycle, rca_limit) ==
    IF recycled(concrete_recycle) < Times(concrete_demand, rca_limit)
    THEN Times(concrete_demand, rca_limit) ELSE recycled(concrete_recycle)
\* variant: the ceiling alone, whatever the supply
used_rca_ceiling_only(concrete_recycle, rca_limit) == Times(concrete_demand, rca_limit)
\* variant: the ceiling is read from the main panel's slider, not from the argument
used_rca_global_limit(concrete_recycle, rca_limit) ==
    min(recycled(concrete_recycle), Times(concrete_demand, max_rca_permitted))
used_rca(concrete_recycle, rca_limit) ==
    min(recycled(concrete_recycle), Times(concrete_demand, rca_limit))
\* variant: the whole recycled supply is subtracted, capped or not
virgin_less_recycled(concrete_recycle, rca_limit) ==
    Units(concrete_demand) - recycled(concrete_recycle)
virgin(concrete_recycle, rca_limit) ==
    Units(concrete_demand) - used_rca(concrete_recycle, rca_limit)
virgin_soil(soil_reuse) == Units(soil_from_demo) - reused_soil(soil_reuse)

co2_cement ==
    ((Units(concrete_demand) * cement_content_per_tonne_tenths) \div 10) * emission_cement
co2_aggregate(concrete_recycle, rca_limit) ==
    virgin(concrete_recycle, rca_limit) * emission_aggregate
\* variant: virgin transport charged on the recycled tonnage
co2_transport_virgin_on_used(concrete_recycle, rca_limit) ==
    used_rca(concrete_recycle, rca_limit) * emission_transport_virgin
co2_transport_virgin(concrete_recycle, rca_limit) ==
    virgin(concrete_recycle, rca_limit) * emission_transport_virgin
co2_transport_recycled(concrete_recycle, rca_limit) ==
    used_rca(concrete_recycle, rca_limit) * emission_transport_recycled
co2_waste == Units(concrete_deconstruction) * emission_waste_processing
co2_soil(soil_reuse) == virgin_soil(soil_reuse) * emission_soil

\* variant: the waste-processing term is left out of the total
co2_total_without_waste(concrete_recycle, soil_reuse, rca_limit) ==
    co2_cement
    + co2_aggregate(concrete_recycle, rca_limit)
    + co2_transport_virgin(concrete_recycle, rca_limit)
    + co2_transport_recycled(concrete_recycle, rca_limit)
    + co2_soil(soil_reuse)

co2_total(concrete_recycle, soil_reuse, rca_limit) ==
    co2_cement
    + co2_aggregate(concrete_recycle, rca_limit)
    + co2_transport_virgin(concrete_recycle, rca_limit)
    + co2_transport_recycled(concrete_recycle, rca_limit)
    + co2_waste
    + co2_soil(soil_reuse)

co2_breakdown(concrete_recycle, soil_reuse, rca_limit) ==
    "Cement Production" :> co2_cement
    @@ "Virgin Aggregate" :> co2_aggregate(concrete_recycle, rca_limit)
    @@ "Transport (Virgin)" :> co2_transport_virgin(concrete_recycle, rca_limit)
    @@ "Transport (Recycled)" :> co2_transport_recycled(concrete_recycle, rca_limit)
    @@ "Waste Processing" :> co2_waste
    @@ "Virgin Soil" :> co2_soil(soil_reuse)

run_simulation(concrete_recycle, soil_reuse, rca_limit) ==
    "Total CO2" :> co2_total(concrete_recycle, soil_reuse, rca_limit)
    @@ "Recycled Concrete" :> recycled(concrete_recycle)
    @@ "Virgin Aggregate" :> virgin(concrete_recycle, rca_limit)
    @@ "Reused Soil" :> reused_soil(soil_reuse)
    @@ "Virgin Soil" :> virgin_soil(soil_reuse)
    @@ "Sand & Gravel Saved" :> used_rca(concrete_recycle, rca_limit)
    @@ "CO2 Breakdown" :> co2_breakdown(concrete_recycle, soil_reuse, rca_limit)

---------------------------------------------------------------------------
(* The comparison table, app.py:112-119: a frame of three columns *)

\* variant: one cell of column B is read from scenario A's result
df_compare_crossed(result_a, result_b) ==
    "Metric" :> <<"Total CO2", "Recycled Concrete", "Virgin Aggregate",
                  "Reused Soil", "Virgin Soil", "Sand & Gravel Saved">>
    @@ "Scenario A" :> <<result_a["Total CO2"], result_a["Recycled Concrete"],
                         result_a["Virgin Aggregate"], result_a["Reused Soil"],
                         result_a["Virgin Soil"], result_a["Sand & Gravel Saved"]>>
    @@ "Scenario B" :> <<result_b["Total CO2"], result_b["Recycled Concrete"],
                         result_a["Virgin Aggregate"], result_b["Reused Soil"],
                         result_b["Virgin Soil"], result_b["Sand & Gravel Saved"]>>

df_compare_of(result_a, result_b) ==
    "Metric" :> <<"Total CO2", "Recycled Concrete", "Virgin Aggregate",
                  "Reused Soil", "Virgin Soil", "Sand & Gravel Saved">>
    @@ "Scenario A" :> <<result_a["Total CO2"], result_a["Recycled Concrete"],
                         result_a["Virgin Aggregate"], result_a["Reused Soil"],
                         result_a["Virgin Soil"], result_a["Sand & Gravel Saved"]>>
    @@ "Scenario B" :> <<result_b["Total CO2"], result_b["Recycled Concrete"],
                         result_b["Virgin Aggregate"], result_b["Reused Soil"],
                         result_b["Virgin Soil"], result_b["Sand & Gravel Saved"]>>

---------------------------------------------------------------------------
(* Observation of an invocation: its arguments, the house counts it read   *)
(* and what it returned                                                    *)

Invocation(concrete_recycle, soil_reuse, rca_limit) ==
    [args |-> <<concrete_recycle, soil_reuse, rca_limit>>,
     houses |-> <<houses_built_per_year, houses_demolished_per_year>>,
     out |-> run_simulation(concrete_recycle, soil_reuse, rca_limit)]

---------------------------------------------------------------------------
(* Initial state: the first run of the script, every widget at its default *)

Init ==
    /\ concrete_recycle_percent = default_concrete_recycle_percent
    /\ soil_reuse_percent = default_soil_reuse_percent
    /\ max_rca_permitted = default_max_rca_permitted
    /\ houses_built_per_year = default_houses_built_per_year
    /\ houses_demolished_per_year = default_houses_demolished_per_year
    /\ a_concrete = default_a_concrete
    /\ a_soil = default_a_soil
    /\ a_rca = default_a_rca
    /\ b_concrete = default_b_concrete
    /\ b_soil = default_b_soil
    /\ b_rca = default_b_rca
    /\ result = NoResult
    /\ df_compare = NoResult
    /\ last_calls = NoCalls
    /\ prev_calls = NoCalls

\* a re-run in which neither button is clicked binds neither result
NoButton == result' = NoResult /\ df_compare' = NoResult

---------------------------------------------------------------------------
(* Widget edits: each re-runs the script with both buttons unclicked *)

SetConcreteRecyclePercent(p) ==
    /\ p # concrete_recycle_percent
    /\ concrete_recycle_percent' = p
    /\ NoButton
    /\ UNCHANGED <<soil_reuse_percent, max_rca_permitted, number_inputs,
                   scenario_sliders, log>>

SetSoilReusePercent(p) ==
    /\ p # soil_reuse_percent
    /\ soil_reuse_percent' = p
    /\ NoButton
    /\ UNCHANGED <<concrete_recycle_percent, max_rca_permitted, number_inputs,
                   scenario_sliders, log>>

SetMaxRcaPermitted(p) ==
    /\ p # max_rca_permitted
    /\ max_rca_permitted' = p
    /\ NoButton
    /\ UNCHANGED <<concrete_recycle_percent, soil_reuse_percent, number_inputs,
                   scenario_sliders, log>>

SetHousesBuilt(n) ==
    /\ n # houses_built_per_year
    /\ houses_built_per_year' = n
    /\ NoButton
    /\ UNCHANGED <<main_sliders, houses_demolished_per_year, scenario_sliders, log>>

SetHousesDemolished(n) ==
    /\ n # houses_demolished_per_year
    /\ houses_demolished_per_year' = n
    /\ NoButton
    /\ UNCHANGED <<main_sliders, houses_built_per_year, scenario_sliders, log>>

SetAConcrete(p) ==
    /\ p # a_concrete
    /\ a_concrete' = p
    /\ NoButton
    /\ UNCHANGED <<main_sliders, number_inputs, a_soil, a_rca, b_concrete, b_soil, b_rca,
                   log>>

SetASoil(p) ==
    /\ p # a_soil
    /\ a_soil' = p
    /\ NoButton
    /\ UNCHANGED <<main_sliders, number_inputs, a_concrete, a_rca, b_concrete, b_soil, b_rca,
                   log>>

SetARca(p) ==
    /\ p # a_rca
    /\ a_rca' = p
    /\ NoButton
    /\ UNCHANGED <<main_sliders, number_inputs, a_concrete, a_soil, b_concrete, b_soil, b_rca,
                   log>>

SetBConcrete(p) ==
    /\ p # b_concrete
    /\ b_concrete' = p
    /\ NoButton
    /\ UNCHANGED <<main_sliders, number_inputs, a_concrete, a_soil, a_rca, b_soil, b_rca,
                   log>>

SetBSoil(p) ==
    /\ p # b_soil
    /\ b_soil' = p
    /\ NoButton
    /\ UNCHANGED <<main_sliders, number_inputs, a_concrete, a_soil, a_rca, b_concrete, b_rca,
                   log>>

SetBRca(p) ==
    /\ p # b_rca
    /\ b_rca' = p
    /\ NoButton
    /\ UNCHANGED <<main_sliders, number_inputs, a_concrete, a_soil, a_rca, b_concrete, b_soil,
                   log>>

---------------------------------------------------------------------------
(* Buttons *)

\* app.py:73-74
RunSimulation ==
    /\ result' = run_simulation(concrete_recycle_percent, soil_reuse_percent,
                                max_rca_permitted)
    /\ df_compare' = NoResult
    /\ UNCHANGED <<main_sliders, number_inputs, scenario_sliders, log>>

\* app.py:111-119
CompareScenarios ==
    /\ df_compare' = df_compare_of(run_simulation(a_concrete, a_soil, a_rca),
                                    run_simulation(b_concrete, b_soil, b_rca))
    /\ result' = NoResult
    /\ UNCHANGED <<main_sliders, number_inputs, scenario_sliders, log>>

---------------------------------------------------------------------------
(* The application with the main panel in use *)

Next ==
    \/ \E p \in MainSliderMoves : SetConcreteRecyclePercent(p)
    \/ \E p \in MainSliderMoves : SetSoilReusePercent(p)
    \/ \E p \in MainSliderMoves : SetMaxRcaPermitted(p)
    \/ \E n \in HouseCounts : SetHousesBuilt(n)
    \/ \E n \in HouseCounts : SetHousesDemolished(n)
    \/ RunSimulation

Spec == Init /\ [][Next]_vars

(* The application with the scenario comparison panel in use *)

NextCompare ==
    \/ \E p \in ScenarioSliderMoves : SetAConcrete(p)
    \/ \E p \in ScenarioSliderMoves : SetASoil(p)
    \/ \E p \in ScenarioSliderMoves : SetARca(p)
    \/ \E p \in ScenarioSliderMoves : SetBConcrete(p)
    \/ \E p \in ScenarioSliderMoves : SetBSoil(p)
    \/ \E p \in ScenarioSliderMoves : SetBRca(p)
    \/ \E n \in HouseCounts : SetHousesBuilt(n)
    \/ \E n \in HouseCounts : SetHousesDemolished(n)
    \/ CompareScenarios

SpecCompare == Init /\ [][NextCompare]_vars

(* The main panel and the comparison panel with every invocation logged *)

RunSimulationObserved ==
    /\ result' = run_simulation(concrete_recycle_percent, soil_reuse_percent,
                                max_rca_permitted)
    /\ df_compare' = NoResult
    /\ last_calls' = <<Invocation(concrete_recycle_percent, soil_reuse_percent,
                                  max_rca_permitted)>>
    /\ prev_calls' = last_calls
    /\ UNCHANGED <<main_sliders, number_inputs, scenario_sliders>>

CompareScenariosObserved ==
    /\ df_compare' = df_compare_of(run_simulation(a_concrete, a_soil, a_rca),
                                    run_simulation(b_concrete, b_soil, b_rca))
    /\ result' = NoResult
    /\ last_calls' = <<Invocation(a_concrete, a_soil, a_rca),
                       Invocation(b_concrete, b_soil, b_rca)>>
    /\ prev_calls' = last_calls
    /\ UNCHANGED <<main_sliders, number_inputs, scenario_sliders>>

NextObserved ==
    \/ \E p \in MainSliderMoves : SetMaxRcaPermitted(p)
    \/ \E n \in HouseCounts : SetHousesBuilt(n)
    \/ RunSimulationObserved
    \/ CompareScenariosObserved

SpecObserved == Init /\ [][NextObserved]_vars

(* The function called directly, with arguments of any sign and size *)

InitEngine ==
    /\ concrete_recycle_percent = default_concrete_recycle_percent
    /\ soil_reuse_percent = default_soil_reuse_percent
    /\ max_rca_permitted = default_max_rca_permitted
    /\ houses_built_per_year \in HouseCounts \cup {default_houses_built_per_year}
    /\ houses_demolished_per_year \in HouseCounts \cup {default_houses_demolished_per_year}
    /\ a_concrete = default_a_concrete
    /\ a_soil = default_a_soil
    /\ a_rca = default_a_rca
    /\ b_concrete = default_b_concrete
    /\ b_soil = default_b_soil
    /\ b_rca = default_b_rca
    /\ result = NoResult
    /\ df_compare = NoResult
    /\ last_calls = NoCalls
    /\ prev_calls = NoCalls

DirectCall(concrete_recycle, soil_reuse, rca_limit) ==
    /\ last_calls' = <<Invocation(concrete_recycle, soil_reuse, rca_limit)>>
    /\ UNCHANGED <<main_sliders, number_inputs, scenario_sliders, outputs, prev_calls>>

NextEngine ==
    \E c, s, r \in EngineFractions : DirectCall(c, s, r)

SpecEngine == InitEngine /\ [][NextEngine]_vars

---------------------------------------------------------------------------
(* Properties *)

RECURSIVE SumOver(_, _)
SumOver(f, keys) ==
    IF keys = {} THEN 0
    ELSE LET k == CHOOSE x \in keys : TRUE
         IN  f[k] + SumOver(f, keys \ {k})

\* the documented domain of the house counts (a slider cannot leave [0,1])
HousesInDomain == houses_built_per_year >= 0 /\ houses_demolished_per_year >= 0

\* the quantities the claims speak of, from the widgets of the main panel
RecycledSupply == Times(houses_demolished_per_year * 45, concrete_recycle_percent)
RcaCeiling == Times(houses_built_per_year * 50, max_rca_permitted)

Shown == result # NoResult

\* C1: with house counts >= 0 and fractions in [0,1], 'Sand & Gravel Saved' is
\* min(recycled, concreteDemand * rcaLimit) with recycled = housesDemolished*45*
\* concreteRecycle and concreteDemand = housesBuilt*50: it is one of the two,
\* and no larger than either.
C1_UsedRcaIsMin ==
    (Shown /\ HousesInDomain) =>
        /\ result["Recycled Concrete"] = RecycledSupply
        /\ result["Sand & Gravel Saved"] <= RecycledSupply
        /\ result["Sand & Gravel Saved"] <= RcaCeiling
        /\ result["Sand & Gravel Saved"] \in {RecycledSupply, RcaCeiling}

\* C1 witness: the ceiling binds, and differs from recycled * rcaLimit
C1_Witness ==
    /\ Shown /\ HousesInDomain
    /\ RcaCeiling < RecycledSupply
    /\ result["Sand & Gravel Saved"] = RcaCeiling
    /\ result["Sand & Gravel Saved"] * SliderSteps # RecycledSupply * max_rca_permitted

\* C5: 'Total CO2' is the sum of the values of 'CO2 Breakdown', whose keys are
\* exactly the six source names.
C5_TotalIsSumOfBreakdown ==
    Shown =>
        /\ DOMAIN result["CO2 Breakdown"] = Range(BreakdownNames)
        /\ Cardinality(DOMAIN result["CO2 Breakdown"]) = 6
        /\ result["Total CO2"]
             = SumOver(result["CO2 Breakdown"], DOMAIN result["CO2 Breakdown"])

\* C5 witness: a result whose six components are all positive
C5_Witness ==
    /\ Shown
    /\ \A k \in Range(BreakdownNames) : result["CO2 Breakdown"][k] > 0

\* C6: 'Virgin Aggregate' + 'Sand & Gravel Saved' = housesBuilt * 50, for
\* every call.
C6_ConcreteDemandConserved ==
    Shown =>
        result["Virgin Aggregate"] + result["Sand & Gravel Saved"]
            = Units(houses_built_per_year * 50)

\* C6 witness: part of the demand is met from recycled aggregate, below the supply
C6_Witness ==
    /\ Shown
    /\ result["Sand & Gravel Saved"] > 0
    /\ result["Virgin Aggregate"] > 0
    /\ result["Sand & Gravel Saved"] < result["Recycled Concrete"]

\* C7: with rcaLimit = 0 and the other inputs in their domain, 'Sand & Gravel
\* Saved' is 0 whatever concreteRecycle is, and 'Virgin Aggregate' is the
\* whole demand.
C7_ZeroLimitUsesNoRca ==
    (Shown /\ HousesInDomain /\ max_rca_permitted = 0) =>
        /\ result["Sand & Gravel Saved"] = 0
        /\ result["Virgin Aggregate"] = Units(houses_built_per_year * 50)

\* C7 witness: a zero ceiling with recycled material on offer and a demand
C7_Witness ==
    /\ Shown /\ HousesInDomain /\ max_rca_permitted = 0
    /\ concrete_recycle_percent > 0
    /\ result["Recycled Concrete"] > 0
    /\ houses_built_per_year > 0

\* C8: with concreteRecycle = 0 and the other inputs in their domain,
\* 'Recycled Concrete' = 0, 'Sand & Gravel Saved' = 0 and 'Virgin Aggregate'
\* is the whole demand.
C8_ZeroRecycleUsesNoRca ==
    (Shown /\ HousesInDomain /\ concrete_recycle_percent = 0) =>
        /\ result["Recycled Concrete"] = 0
        /\ result["Sand & Gravel Saved"] = 0
        /\ result["Virgin Aggregate"] = Units(houses_built_per_year * 50)

\* C8 witness: nothing recycled although houses are demolished and the ceiling is open
C8_Witness ==
    /\ Shown /\ HousesInDomain /\ concrete_recycle_percent = 0
    /\ houses_demolished_per_year > 0
    /\ houses_built_per_year > 0
    /\ max_rca_permitted > 0

\* C10: with house counts >= 0 and fractions in [0,1], no returned quantity is
\* negative, 'Sand & Gravel Saved' exceeds neither the demand nor the
\* demolished concrete (housesDemolished * 45), and 'Reused Soil' does not
\* exceed housesDemolished * 15.
C10_NothingNegative ==
    (Shown /\ HousesInDomain) =>
        /\ \A i \in DOMAIN MetricNames : result[MetricNames[i]] >= 0
        /\ \A k \in DOMAIN result["CO2 Breakdown"] : result["CO2 Breakdown"][k] >= 0
        /\ result["Sand & Gravel Saved"] <= Units(houses_built_per_year * 50)
        /\ result["Sand & Gravel Saved"] <= Units(houses_demolished_per_year * 45)
        /\ result["Reused Soil"] <= Units(houses_demolished_per_year * 15)

\* C10 witness: the bounds are met with equality (everything recycled and
\* reused, demand no larger than the supply)
C10_Witness ==
    /\ Shown /\ HousesInDomain
    /\ houses_demolished_per_year > 0
    /\ result["Reused Soil"] = Units(houses_demolished_per_year * 15)
    /\ result["Virgin Soil"] = 0
    /\ result["Virgin Aggregate"] = 0
    /\ result["Sand & Gravel Saved"] > 0

---------------------------------------------------------------------------
(* Properties of the comparison panel, under SpecCompare *)

Compared == df_compare # NoResult

TotalA == df_compare["Scenario A"][1]
TotalB == df_compare["Scenario B"][1]

\* C3: two simulations that differ only in concreteRecycle, house counts
\* >= 0: the one with the larger concreteRecycle has a 'Total CO2' no larger
\* than the other's.
C3_MoreRecyclingNeverMoreCO2 ==
    (Compared /\ HousesInDomain /\ a_soil = b_soil /\ a_rca = b_rca) =>
        /\ (a_concrete <= b_concrete => TotalB <= TotalA)
        /\ (b_concrete <= a_concrete => TotalA <= TotalB)

\* C3 witness: B recycles more than A, all else equal, and emits strictly less
C3_Witness ==
    /\ Compared /\ HousesInDomain /\ a_soil = b_soil /\ a_rca = b_rca
    /\ a_concrete < b_concrete
    /\ TotalB < TotalA

\* C4: the table has the six metric rows in their order; column A holds what
\* run_simulation returns for A's sliders and column B what it returns for
\* B's; another setting of B's sliders leaves column A as it is, and another
\* setting of A's sliders leaves column B as it is.
C4_ColumnsIndependent ==
    Compared =>
        /\ DOMAIN df_compare = {"Metric", "Scenario A", "Scenario B"}
        /\ df_compare["Metric"] = MetricNames
        /\ Len(df_compare["Scenario A"]) = 6
        /\ Len(df_compare["Scenario B"]) = 6
        /\ \A i \in 1..6 :
              /\ df_compare["Scenario A"][i]
                   = run_simulation(a_concrete, a_soil, a_rca)[MetricNames[i]]
              /\ df_compare["Scenario B"][i]
                   = run_simulation(b_concrete, b_soil, b_rca)[MetricNames[i]]
        /\ \A p \in ScenarioSliderMoves :
              /\ df_compare_of(run_simulation(a_concrete, a_soil, a_rca),
                               run_simulation(p, p, p))["Scenario A"]
                   = df_compare["Scenario A"]
              /\ df_compare_of(run_simulation(p, p, p),
                               run_simulation(b_concrete, b_soil, b_rca))["Scenario B"]
                   = df_compare["Scenario B"]

\* C4 witness: a table whose two scenarios differ in every row
C4_Witness ==
    /\ Compared
    /\ \A i \in 1..6 : df_compare["Scenario A"][i] # df_compare["Scenario B"][i]

---------------------------------------------------------------------------
(* Properties of the logged invocations, under SpecObserved *)

Logged == Range(prev_calls) \cup Range(last_calls)

---------------------------------------------------------------------------
(* Properties of direct calls, under SpecEngine *)

\* what the formulas give for one logged invocation
FormulasHold(c) ==
    LET cr == c.args[1]
        sr == c.args[2]
        rl == c.args[3]
        hb == c.houses[1]
        hd == c.houses[2]
        out == c.out
        bd == c.out["CO2 Breakdown"]
        supply == Times(hd * 45, cr)
        ceiling == Times(hb * 50, rl)
    IN  /\ out["Recycled Concrete"] = supply
        /\ out["Reused Soil"] = Times(hd * 15, sr)
        /\ out["Sand & Gravel Saved"] = IF ceiling < supply THEN ceiling ELSE supply
        /\ out["Virgin Aggregate"] = Units(hb * 50) - out["Sand & Gravel Saved"]
        /\ out["Virgin Soil"] = Units(hd * 15) - out["Reused Soil"]
        /\ bd["Cement Production"] = Units(hb * 15) * 698
        /\ bd["Virgin Aggregate"] = out["Virgin Aggregate"] * 9
        /\ bd["Transport (Virgin)"] = out["Virgin Aggregate"] * 100
        /\ bd["Transport (Recycled)"] = out["Sand & Gravel Saved"] * 50
        /\ bd["Waste Processing"] = Units(hd * 45) * 30
        /\ bd["Virgin Soil"] = out["Virgin Soil"] * 10
        /\ out["Total CO2"] = SumOver(bd, DOMAIN bd)

\* C9: for every input, negative house counts and fractions outside [0,1]
\* included, a call returns the six metrics and the six-entry breakdown,
\* computed by the same formulas; there is no error outcome.
C9_NoInputRejected ==
    \A c \in Range(last_calls) :
        /\ DOMAIN c.out = Range(MetricNames) \cup {"CO2 Breakdown"}
        /\ DOMAIN c.out["CO2 Breakdown"] = Range(BreakdownNames)
        /\ FormulasHold(c)

\* C9 witness: a call with a negative house count and fractions outside
\* [0,1] that returned negative tonnages and a negative emission
C9_Witness ==
    \E c \in Range(last_calls) :
        /\ c.houses[2] < 0
        /\ c.args[1] > SliderSteps
        /\ c.args[3] < 0
        /\ c.out["Recycled Concrete"] < 0
        /\ c.out["Sand & Gravel Saved"] < 0
        /\ c.out["CO2 Breakdown"]["Transport (Recycled)"] < 0

=============================================================================
